---- MODULE Spec2Model ----
(***************************************************************************)
(* Model of app.py: a Streamlit script that extracts text from an uploaded *)
(* PDF/DOCX, seeds a Gemini chat session with it and relays questions.     *)
(*                                                                         *)
(* Streamlit re-executes main() from the top on every widget event.  The   *)
(* model has one action per kind of script run (the event that triggers    *)
(* it), and one action per step of the response stream, which is the only  *)
(* point where the script waits for the remote model.                      *)
(*                                                                         *)
(* Python strings are sequences of one-character strings; an optional      *)
(* value is None (<<>>) or Some(v) (<<v>>); st.session_state is a function *)
(* whose domain is the set of keys presently stored.                       *)
(***************************************************************************)
EXTENDS Integers, Sequences, FiniteSets, TLC

VARIABLES
    radio,               \* value of the language radio widget
    uploaded_pdf,        \* value of the PDF file_uploader widget (optional file)
    uploaded_docx,       \* value of the DOCX file_uploader widget (optional file)
    session_state,       \* st.session_state: keys "language", "chat", "messages"
    document_content,    \* main's local of the current/last run (optional string)
    pc,                  \* "rerun" | "idle" | "streaming"
    shown,               \* widgets rendered by the last finished run
    prompt,              \* chatbot_interface local: the submitted prompt
    stream,              \* the chunks the remote model produces for this prompt
    response,            \* chunks the response iterator has delivered so far
    full_response,       \* chatbot_interface local
    message_placeholder, \* what the st.empty() placeholder displays
    st_error,            \* st.error messages of the current/last run
    next_id,             \* identity given to the next object start_chat returns
    event,               \* history: kind of the last step taken
    seeds,               \* history: start_chat calls since the last reset/language change
    completed,           \* history: streams completed on the stored chat session
    failed               \* history: transcript indices of user turns whose stream failed

vars == <<radio, uploaded_pdf, uploaded_docx, session_state, document_content, pc,
          shown, prompt, stream, response, full_response, message_placeholder,
          st_error, next_id, event, seeds, completed, failed>>

-----------------------------------------------------------------------------
(* Bounds of the model *)

MaxSessions == 2      \* start_chat calls in one behaviour
MaxTranscript == 3    \* a prompt is accepted while the transcript is shorter than this

-----------------------------------------------------------------------------
(* Python values *)

None == <<>>
Some(v) == <<v>>

\* str.strip() removes leading and trailing whitespace
IsSpace(c) == c \in {" ", "\n", "\t"}

RECURSIVE lstrip(_)
lstrip(s) == IF s # <<>> /\ IsSpace(Head(s)) THEN lstrip(Tail(s)) ELSE s

RECURSIVE rstrip(_)
rstrip(s) ==
    IF s # <<>> /\ IsSpace(s[Len(s)]) THEN rstrip(SubSeq(s, 1, Len(s) - 1)) ELSE s

strip(s) == rstrip(lstrip(s))

\* sep.join(parts)
RECURSIVE join(_, _)
join(sep, parts) ==
    IF parts = <<>> THEN <<>>
    ELSE IF Len(parts) = 1 THEN parts[1]
    ELSE parts[1] \o sep \o join(sep, Tail(parts))

\* str(n) for a natural number
Digits == <<"0", "1", "2", "3", "4", "5", "6", "7", "8", "9">>

RECURSIVE str(_)
str(n) == IF n < 10 THEN <<Digits[n + 1]>> ELSE str(n \div 10) \o <<Digits[(n % 10) + 1]>>

\* dict operations on st.session_state
Has(ss, k) == k \in DOMAIN ss
Pop(ss, k) == LET d == ss IN [x \in (DOMAIN d) \ {k} |-> d[x]]
Put(ss, k, v) == (k :> v) @@ ss

-----------------------------------------------------------------------------
(* String literals of the source *)

ParagraphBreak == <<"\n", "\n">>

SectionSeparator ==
    <<"\n", "\n", "-", "-", "-", " ", "E", "n", "d", " ", "o", "f", " ",
      "D", "o", "c", "u", "m", "e", "n", "t", " ",
      "S", "e", "c", "t", "i", "o", "n", " ", "-", "-", "-", "\n", "\n">>

PageOpen == <<"[", "P", "a", "g", "e", " ">>
PageClose == <<"]", "\n">>

TypingMarker == <<"|">>   \* stands for the block cursor (U+258C) of line 206

\* "Marathi" stands for the Devanagari spelling the source compares with
Languages == {"Marathi", "English"}
DefaultLanguage == "Marathi"   \* the first option of the radio

-----------------------------------------------------------------------------
(* Step 2: extraction *)

\* [Page i]\n<text> for every page whose text is not blank, joined by blank lines;
\* "" when the reader raises
RECURSIVE pdf_text_parts(_, _)
pdf_text_parts(pages, i) ==
    IF i > Len(pages) THEN <<>>
    ELSE LET text == IF pages[i] = None THEN <<>> ELSE pages[i][1]
         IN  (IF strip(text) # <<>>
              THEN << PageOpen \o str(i) \o PageClose \o text >>
              ELSE <<>>) \o pdf_text_parts(pages, i + 1)

extract_text_from_pdf(pdf_file) ==
    IF pdf_file.readable
    THEN join(ParagraphBreak, pdf_text_parts(pdf_file.pages, 1))
    ELSE <<>>

\* the paragraphs, then the table cells, whose text is not blank
docx_text_parts(texts) == SelectSeq(texts, LAMBDA t : strip(t) # <<>>)

extract_text_from_docx(docx_file) ==
    IF docx_file.readable
    THEN join(ParagraphBreak,
              docx_text_parts(docx_file.paragraphs) \o docx_text_parts(docx_file.cells))
    ELSE <<>>

-----------------------------------------------------------------------------
(* Step 3: aggregation *)

\* a slip: the DOCX text is put before the PDF text
combine_content_docx_first(pdf_text, docx_text) ==
    LET parts == (IF docx_text # None /\ strip(docx_text[1]) # <<>>
                  THEN <<docx_text[1]>> ELSE <<>>)
                 \o (IF pdf_text # None /\ strip(pdf_text[1]) # <<>>
                     THEN <<pdf_text[1]>> ELSE <<>>)
    IN  IF parts = <<>> THEN None ELSE Some(join(SectionSeparator, parts))

\* lines 68-90 on the two extracted texts (None for a file not given)
combine_content(pdf_text, docx_text) ==
    LET combined_pdf == IF pdf_text # None /\ strip(pdf_text[1]) # <<>>
                        THEN <<pdf_text[1]>> ELSE <<>>
        combined_content == IF docx_text # None /\ strip(docx_text[1]) # <<>>
                            THEN Append(combined_pdf, docx_text[1]) ELSE combined_pdf
        final_content_string == join(SectionSeparator, combined_content)
    IN  IF strip(final_content_string) = <<>> THEN None ELSE Some(final_content_string)

process_document_content(pdf_file, docx_file) ==
    combine_content(
        IF pdf_file # None THEN Some(extract_text_from_pdf(pdf_file[1])) ELSE None,
        IF docx_file # None THEN Some(extract_text_from_docx(docx_file[1])) ELSE None)

\* Python truthiness of an optional string
Truthy(o) == o # None /\ o[1] # <<>>

-----------------------------------------------------------------------------
(* Inputs: the files a user may upload, the prompts, the chunks of a stream *)

\* a PDF whose first two pages have no text, and one the reader rejects
PdfWithText == [readable |-> TRUE, pages |-> <<None, Some(<<" ">>), Some(<<"R">>)>>]
PdfCorrupt == [readable |-> FALSE, pages |-> <<>>]
PdfFiles == {PdfWithText, PdfCorrupt}

DocxWithText ==
    [readable |-> TRUE, paragraphs |-> <<<<"F">>, <<" ">>>>, cells |-> <<<<"T">>>>]
DocxFiles == {DocxWithText}

Prompts == {<<>>, <<" ">>, <<"q">>}

\* a chunk is its .text: None, or a string; a stream is the chunks of one reply
Streams == {<<>>, <<Some(<<"x">>), None, Some(<<"y">>)>>}

-----------------------------------------------------------------------------
(* Step 4: the chat session and the transcript *)

NoLanguage == "-"

Part(msg, language, text) == [msg |-> msg, language |-> language, text |-> text]

\* a slip: the document is injected before the system instruction
seed_history_document_first(content, language) ==
    << [role |-> "user", parts |-> Part("document_message", language, content)],
       [role |-> "model", parts |-> Part("model_response2", language, <<>>)],
       [role |-> "user", parts |-> Part("system_message", language, <<>>)],
       [role |-> "model", parts |-> Part("model_response1", language, <<>>)] >>

\* the history given to start_chat: the literals are named, and the document
\* message carries the document_content the f-string inlines
seed_history(content, language) ==
    << [role |-> "user", parts |-> Part("system_message", language, <<>>)],
       [role |-> "model", parts |-> Part("model_response1", language, <<>>)],
       [role |-> "user", parts |-> Part("document_message", language, content)],
       [role |-> "model", parts |-> Part("model_response2", language, <<>>)] >>

\* model.start_chat(history=...): a new session object
start_chat(history, id) == [id |-> id, history |-> history]

\* a slip: the session is started on every run, stored or not
init_chat_every_run(ss, content, language, id) ==
    Put(ss, "chat", [id |-> id, history |-> seed_history(content, language)])

\* if "chat" not in st.session_state: ... st.session_state["chat"] = chat
init_chat(ss, content, language, id) ==
    IF ~Has(ss, "chat")
    THEN Put(ss, "chat", start_chat(seed_history(content, language), id))
    ELSE ss

\* if "messages" not in st.session_state: st.session_state["messages"] = []
init_messages(ss) == IF ~Has(ss, "messages") THEN Put(ss, "messages", <<>>) ELSE ss

\* st.session_state["messages"].append({"role": role, "content": content})
append_message(ss, role, content) ==
    Put(ss, "messages", Append(ss["messages"], [role |-> role, content |-> content]))

\* the session object after a send_message whose stream was consumed to its end:
\* the prompt and the reply join the session's history
record_turn(chat, p, reply) ==
    [chat EXCEPT !.history =
        @ \o << [role |-> "user", parts |-> Part("prompt", NoLanguage, p)],
                [role |-> "model", parts |-> Part("reply", NoLanguage, reply)] >>]

\* a slip: the chunk is put in front of the text accumulated so far
accumulate_in_front(full, chunk) == (IF Truthy(chunk) THEN chunk[1] ELSE <<>>) \o full

\* full_response += (chunk.text if chunk.text else "")
accumulate(full, chunk) == full \o (IF Truthy(chunk) THEN chunk[1] ELSE <<>>)

\* the try block after the loop: the final view and the assistant entry
finish_response(ss, p, full) ==
    Put(append_message(ss, "assistant", full), "chat", record_turn(ss["chat"], p, full))

\* a slip: the except block drops the session, so the next run seeds a new one
fail_response_drops_chat(ss) == Pop(ss, "chat")

\* a slip: the except block records the partial text as the assistant's reply
fail_response_keeps_partial(ss) ==
    Put(ss, "messages",
        Append(ss["messages"], [role |-> "assistant", content |-> full_response]))

\* the except block: st.error, nothing else
fail_response(ss) == ss

-----------------------------------------------------------------------------
(* Step 5: main *)

\* a slip: a language change clears the transcript and keeps the session
store_language_keeps_chat(ss, language) ==
    IF ~Has(ss, "language") THEN Put(ss, "language", language)
    ELSE IF language # ss["language"]
         THEN Pop(Put(ss, "language", language), "messages")
         ELSE ss

\* lines 265-275: remember the language, clear the chat when it changes
store_language(ss, language) ==
    IF ~Has(ss, "language") THEN Put(ss, "language", language)
    ELSE IF language # ss["language"]
         THEN Pop(Pop(Put(ss, "language", language), "messages"), "chat")
         ELSE ss

\* a slip: the reset button clears the transcript and keeps the session
reset_chat_keeps_chat(ss) == Pop(ss, "messages")

\* lines 326-329: the reset button
reset_chat(ss) == Pop(Pop(ss, "messages"), "chat")

TranscriptLen(ss) == IF Has(ss, "messages") THEN Len(ss["messages"]) ELSE 0

Init ==
    /\ radio = DefaultLanguage
    /\ uploaded_pdf = None
    /\ uploaded_docx = None
    /\ session_state = [k \in {} |-> None]
    /\ document_content = None
    /\ pc = "rerun"
    /\ shown = {}
    /\ prompt = <<>>
    /\ stream = <<>>
    /\ response = <<>>
    /\ full_response = <<>>
    /\ message_placeholder = <<>>
    /\ st_error = {}
    /\ next_id = 1
    /\ event = "start"
    /\ seeds = 0
    /\ completed = 0
    /\ failed = {}

\* One execution of main() with the given widget values, up to the point where
\* it waits for the response stream or ends.
ScriptRun(language, pdf, docx, chat_input, chunks, button, init_error, ev) ==
    \E content \in {IF pdf # None \/ docx # None
                    THEN process_document_content(pdf, docx) ELSE None},
       ss1 \in {store_language(session_state, language)} :
    \E ss2 \in {IF Truthy(content) /\ ~init_error
                THEN init_messages(init_chat(ss1, content[1], ss1["language"], next_id))
                ELSE ss1} :
    LET language_changed ==
            Has(session_state, "language") /\ session_state["language"] # language
        given == pdf # None \/ docx # None
        chatting == Truthy(content) /\ ~init_error
        created == Has(ss2, "chat") /\ ss2["chat"].id = next_id
        asking == chatting /\ Truthy(chat_input)
        resetting == Truthy(content) /\ ~asking /\ button
    IN  \E ss4 \in {IF asking THEN append_message(ss2, "user", chat_input[1])
                    ELSE IF resetting THEN reset_chat(ss2)
                    ELSE ss2} :
        /\ created => next_id <= MaxSessions
        /\ radio' = language
        /\ uploaded_pdf' = pdf
        /\ uploaded_docx' = docx
        /\ document_content' = content
        /\ session_state' = ss4
        /\ next_id' = IF created THEN next_id + 1 ELSE next_id
        /\ pc' = IF asking THEN "streaming" ELSE IF resetting THEN "rerun" ELSE "idle"
        /\ shown' = IF ~Truthy(content) \/ asking \/ resetting THEN {}
                    ELSE IF init_error THEN {"reset_btn"}
                    ELSE {"chat_input", "reset_btn"}
        /\ st_error' = IF given /\ ~Truthy(content) THEN {"processing"}
                       ELSE IF Truthy(content) /\ init_error THEN {"init"}
                       ELSE {}
        /\ prompt' = IF asking THEN chat_input[1] ELSE <<>>
        /\ stream' = IF asking THEN chunks ELSE <<>>
        /\ response' = <<>>
        /\ full_response' = <<>>
        /\ message_placeholder' = <<>>
        /\ event' = ev
        /\ seeds' = IF resetting THEN 0
                    ELSE (IF language_changed THEN 0 ELSE seeds)
                         + (IF created THEN 1 ELSE 0)
        /\ completed' = IF created \/ ~Has(ss4, "chat") THEN 0 ELSE completed
        /\ failed' = IF language_changed \/ resetting \/ ~Has(ss4, "messages")
                     THEN {} ELSE failed

\* the first run of a browser session, and the run st.rerun() asks for
Rerun ==
    /\ pc = "rerun"
    /\ \E init_error \in BOOLEAN :
         ScriptRun(radio, uploaded_pdf, uploaded_docx, None, <<>>, FALSE, init_error, "rerun")

SelectLanguage ==
    /\ pc = "idle"
    /\ \E language \in Languages \ {radio}, init_error \in BOOLEAN :
         ScriptRun(language, uploaded_pdf, uploaded_docx, None, <<>>, FALSE, init_error,
                   "language")

UploadPdf ==
    /\ pc = "idle"
    /\ \E pdf \in ({None} \cup {Some(f) : f \in PdfFiles}) \ {uploaded_pdf},
          init_error \in BOOLEAN :
         ScriptRun(radio, pdf, uploaded_docx, None, <<>>, FALSE, init_error, "upload")

UploadDocx ==
    /\ pc = "idle"
    /\ \E docx \in ({None} \cup {Some(f) : f \in DocxFiles}) \ {uploaded_docx},
          init_error \in BOOLEAN :
         ScriptRun(radio, uploaded_pdf, docx, None, <<>>, FALSE, init_error, "upload")

Submit ==
    /\ pc = "idle"
    /\ "chat_input" \in shown
    /\ TranscriptLen(session_state) < MaxTranscript
    /\ \E p \in Prompts, chunks \in Streams, init_error \in BOOLEAN :
         ScriptRun(radio, uploaded_pdf, uploaded_docx, Some(p), chunks, FALSE,
                   init_error, "submit")

ClickReset ==
    /\ pc = "idle"
    /\ "reset_btn" \in shown
    /\ \E init_error \in BOOLEAN :
         ScriptRun(radio, uploaded_pdf, uploaded_docx, None, <<>>, TRUE, init_error,
                   "reset")

\* one iteration of `for chunk in response`
StreamChunk ==
    /\ pc = "streaming"
    /\ Len(response) < Len(stream)
    /\ \E chunk \in {stream[Len(response) + 1]} :
         /\ response' = Append(response, chunk)
         /\ full_response' = accumulate(full_response, chunk)
         /\ message_placeholder' = accumulate(full_response, chunk) \o TypingMarker
    /\ event' = "chunk"
    /\ UNCHANGED <<radio, uploaded_pdf, uploaded_docx, session_state, document_content,
                   pc, shown, prompt, stream, st_error, next_id, seeds, completed, failed>>

\* the iterator is exhausted: lines 207-208, then the rest of main
StreamDone ==
    /\ pc = "streaming"
    /\ Len(response) = Len(stream)
    /\ message_placeholder' = full_response
    /\ session_state' = finish_response(session_state, prompt, full_response)
    /\ completed' = completed + 1
    /\ pc' = "idle"
    /\ shown' = {"chat_input", "reset_btn"}
    /\ event' = "done"
    /\ UNCHANGED <<radio, uploaded_pdf, uploaded_docx, document_content, prompt,
                   stream, response, full_response, st_error, next_id, seeds, failed>>

\* send_message, the iterator or chunk.text raises: lines 209-211, then the rest of main
StreamError ==
    /\ pc = "streaming"
    /\ session_state' = fail_response(session_state)
    /\ st_error' = st_error \cup {"generation"}
    /\ failed' = failed \cup {TranscriptLen(session_state)}
    /\ pc' = "idle"
    /\ shown' = {"chat_input", "reset_btn"}
    /\ event' = "error"
    /\ UNCHANGED <<radio, uploaded_pdf, uploaded_docx, document_content, prompt,
                   stream, response, full_response, message_placeholder, next_id, seeds,
                   completed>>

Next ==
    \/ Rerun
    \/ SelectLanguage
    \/ UploadPdf
    \/ UploadDocx
    \/ Submit
    \/ ClickReset
    \/ StreamChunk
    \/ StreamDone
    \/ StreamError

Spec == Init /\ [][Next]_vars

-----------------------------------------------------------------------------
(* Vocabulary of the properties *)

HasChat == Has(session_state, "chat")
HasMessages == Has(session_state, "messages")
Transcript == IF HasMessages THEN session_state["messages"] ELSE <<>>

IsPrefix(a, b) == Len(a) <= Len(b) /\ SubSeq(b, 1, Len(a)) = a

Sending == pc = "streaming"   \* a send_message call is in progress

\* the language and the document text a session was seeded with
SeedLanguage(chat) ==
    {t.parts.language : t \in {chat.history[i] : i \in 1..Len(chat.history)}}
        \ {NoLanguage}
SeedDocuments(chat) ==
    SelectSeq(chat.history, LAMBDA t : t.parts.msg = "document_message")

\* the text of a sequence of chunks, in order
RECURSIVE TextOf(_)
TextOf(chunks) ==
    IF chunks = <<>> THEN <<>>
    ELSE (IF Head(chunks) = None THEN <<>> ELSE Head(chunks)[1]) \o TextOf(Tail(chunks))

Assistants(m) == {i \in 1..Len(m) : m[i].role = "assistant"}

\* extracted texts the aggregation is tried on
Blank == {<<>>, <<" ">>, <<"\n", "\t">>}
Texts == Blank \cup {<<"A">>, <<" ", "B", "\n">>}
OptTexts == {None} \cup {Some(t) : t \in Texts}

\* the texts that survive, in input order
Kept(pdf_text, docx_text) ==
    SelectSeq(<<pdf_text, docx_text>>,
              LAMBDA o : o # None /\ \E i \in 1..Len(o[1]) : o[1][i] \notin {" ", "\n", "\t"})

-----------------------------------------------------------------------------
(* C1: no query is sent over a session whose injected document text differs *)
(* from the current document_content: whenever send_message is in progress, *)
(* the stored session carries exactly one document message and its text is  *)
(* the document_content of this run.  (Stated for prompts that are not     *)
(* blank, so that a violation does not rest on a blank prompt being sent.) *)
C1_NoStaleContext ==
    (Sending /\ strip(prompt) # <<>>) =>
        /\ HasChat
        /\ Len(SeedDocuments(session_state["chat"])) = 1
        /\ SeedDocuments(session_state["chat"])[1].parts.text = document_content[1]

-----------------------------------------------------------------------------
(* C2: the stored session is always seeded in the stored language, a query  *)
(* is only sent over a session seeded in the selected language, and the run *)
(* of a language change leaves no earlier transcript entry and no earlier   *)
(* session behind.                                                          *)
C2_LanguageInvalidates ==
    /\ HasChat => SeedLanguage(session_state["chat"]) = {session_state["language"]}
    /\ Sending => HasChat /\ session_state["language"] = radio
    /\ event = "language" =>
         /\ session_state["language"] = radio
         /\ Transcript = <<>>
         /\ HasChat => session_state["chat"].id = next_id - 1 /\ seeds = 1 /\ completed = 0

\* a language change has replaced an earlier session by a new one
C2_Witness ==
    /\ event = "language"
    /\ HasChat
    /\ session_state["chat"].id = 2
    /\ SeedLanguage(session_state["chat"]) = {"English"}

-----------------------------------------------------------------------------
(* C3: between two invalidations (reset, language change) start_chat runs   *)
(* at most once, the stored session is the one it returned, and that        *)
(* session's history holds the document message exactly once.               *)
C3_SeedOnce ==
    /\ seeds <= 1
    /\ HasChat =>
         /\ seeds = 1
         /\ Len(SeedDocuments(session_state["chat"])) = 1

\* a second query on a session that has already answered one
C3_Witness == Sending /\ completed >= 1 /\ seeds = 1

-----------------------------------------------------------------------------
(* C4: every session's history starts with the system instruction, its      *)
(* acknowledgement, the document message and its acknowledgement, and the   *)
(* prompts and replies come only after them; send_message is only called    *)
(* on such a session.                                                       *)
C4_SeedBeforeQuestions ==
    /\ Sending => HasChat
    /\ HasChat =>
         LET h == session_state["chat"].history
         IN  /\ Len(h) >= 4
             /\ h[1].role = "user" /\ h[1].parts.msg = "system_message"
             /\ h[2].role = "model" /\ h[2].parts.msg = "model_response1"
             /\ h[3].role = "user" /\ h[3].parts.msg = "document_message"
             /\ h[4].role = "model" /\ h[4].parts.msg = "model_response2"
             /\ \A i \in 1..Len(h) : h[i].parts.msg \in {"prompt", "reply"} <=> i > 4

\* a query is sent over a session that already holds an earlier question
C4_Witness == Sending /\ HasChat /\ Len(session_state["chat"].history) > 4

-----------------------------------------------------------------------------
(* C5: a query that is empty after trimming causes no send_message call.    *)
C5_BlankPromptIsNoOp == Sending => strip(prompt) # <<>>

-----------------------------------------------------------------------------
(* C6: a stream failure leaves the user message as the last transcript      *)
(* entry, appends no assistant entry, surfaces an error and leaves          *)
(* session_state (the stored session included) as it was; the next query    *)
(* goes over that same session.                                             *)
C6_FailedTurn ==
    [][/\ event' = "error" =>
            /\ session_state' = session_state
            /\ HasChat
            /\ Transcript # <<>>
            /\ Transcript[Len(Transcript)] = [role |-> "user", content |-> prompt]
            /\ "generation" \in st_error'
            /\ "chat_input" \in shown'
       /\ (event = "error" /\ Sending') =>
            /\ HasChat'
            /\ session_state'["chat"] = session_state["chat"]]_vars

\* a query is being sent on a transcript that holds a failed turn
C6_Witness == Sending /\ failed # {} /\ HasChat

-----------------------------------------------------------------------------
(* C7: the aggregation is the ordered join of the texts that are not blank, *)
(* PDF first, with the section separator, and None when there is none; a    *)
(* run whose document_content is None starts no session and sends nothing.  *)
C7_Aggregation ==
    /\ [](/\ \A pdf_text \in OptTexts, docx_text \in OptTexts :
               combine_content(pdf_text, docx_text) =
                   IF Kept(pdf_text, docx_text) = <<>> THEN None
                   ELSE Some(join(SectionSeparator,
                                  [i \in 1..Len(Kept(pdf_text, docx_text)) |->
                                      Kept(pdf_text, docx_text)[i][1]]))
          /\ (uploaded_pdf = Some(PdfWithText) /\ uploaded_docx = Some(DocxWithText)) =>
               document_content =
                   Some(extract_text_from_pdf(PdfWithText) \o SectionSeparator
                        \o extract_text_from_docx(DocxWithText))
          /\ (uploaded_pdf = None /\ uploaded_docx = None) => document_content = None
          /\ document_content = None => ~Sending)
    /\ [][document_content' = None => next_id' = next_id]_vars

\* both files are uploaded and the content holds both texts
C7_Witness ==
    /\ uploaded_pdf # None
    /\ uploaded_docx # None
    /\ document_content # None
    /\ Len(document_content[1]) > Len(SectionSeparator)

-----------------------------------------------------------------------------
(* C8: the chunks are consumed in delivery order; after the k-th chunk the  *)
(* placeholder shows the text of chunks 1..k followed by the typing marker; *)
(* on completion the placeholder and the assistant entry are the text of    *)
(* all the chunks in order.                                                 *)
C8_ChunksInOrder ==
    /\ Sending =>
         /\ response = SubSeq(stream, 1, Len(response))
         /\ full_response = TextOf(response)
         /\ response # <<>> => message_placeholder = TextOf(response) \o TypingMarker
    /\ event = "done" =>
         /\ message_placeholder = TextOf(stream)
         /\ Transcript # <<>>
         /\ Transcript[Len(Transcript)] =
                [role |-> "assistant", content |-> TextOf(stream)]

\* a stream of three chunks, one of them without text, has completed
C8_Witness == event = "done" /\ Len(stream) = 3 /\ None \in {stream[i] : i \in 1..3}

-----------------------------------------------------------------------------
(* C9: the transcript only grows except in the step of a reset or language  *)
(* change; the transcript and the session are stored and removed together.  *)
C9_AppendOnly ==
    /\ [](HasChat <=> HasMessages)
    /\ [][/\ (HasMessages /\ ~(HasMessages' /\ IsPrefix(Transcript, Transcript'))) =>
                /\ event' \in {"language", "reset"}
                /\ HasChat
                /\ HasChat' => session_state'["chat"].id # session_state["chat"].id
          /\ (HasChat /\ ~(HasChat' /\ session_state'["chat"].id = session_state["chat"].id))
                => /\ event' \in {"language", "reset"}
                   /\ Transcript' = <<>>]_vars

\* the reset button has removed the session and the transcript
C9_Witness == event = "reset" /\ ~HasChat /\ ~HasMessages /\ next_id > 1

-----------------------------------------------------------------------------
(* C10: the transcript starts with a user entry, every assistant entry      *)
(* follows a user entry, there are as many assistant entries as streams     *)
(* completed on the stored session, and a user entry is followed by         *)
(* another user entry only where its turn failed.                           *)
C10_TranscriptWellFormed ==
    LET m == Transcript
    IN  /\ m # <<>> => m[1].role = "user"
        /\ \A i \in 1..Len(m) : m[i].role \in {"user", "assistant"}
        /\ \A i \in Assistants(m) : i > 1 /\ m[i - 1].role = "user"
        /\ Cardinality(Assistants(m)) = completed
        /\ \A i \in 1..(Len(m) - 1) :
             (m[i].role = "user" /\ m[i + 1].role = "user") => i \in failed

\* a failed turn followed by an answered one
C10_Witness ==
    /\ Len(Transcript) = 3
    /\ Transcript[2].role = "user"
    /\ Transcript[3].role = "assistant"
    /\ failed = {1}

====
